---- MODULE Spec2Model ----
(***************************************************************************)
(* A model of purgelogs.py: the tree walk that classifies directories as   *)
(* job directories, the resolver that computes the protected buildsets,    *)
(* the purge pass, the deleter and the main loop, over a small filesystem. *)
(***************************************************************************)
EXTENDS Integers, Sequences, FiniteSets, TLC

\* ------------------------------------------------------------------ bounds
\* The clock's start value; modification times before the run lie in 0..InitTime.
InitTime == 2
\* The clock stops advancing at MaxTime.
MaxTime == 3
\* Largest --retention-days drawn.
MaxRetention == 1
\* Number of purge cycles after which a looping process is no longer followed.
MaxCycles == 2

\* ------------------------------------------------------ structured documents
\* A parsed YAML/JSON value: null, a string, an integer, a boolean, a mapping,
\* a sequence.
Null == [t |-> "null"]
Str(s) == [t |-> "str", s |-> s]
Int0(n) == [t |-> "int", n |-> n]
Bool0(b) == [t |-> "bool", b |-> b]
Map(f) == [t |-> "map", m |-> f]
List(q) == [t |-> "seq", q |-> q]
\* The {} default of dict.get(key, {}).
EmptyMap == [t |-> "map", m |-> <<>>]

\* The result of a call: a returned value, or an exception that propagates.
Ret(v) == [exc |-> FALSE, v |-> v, err |-> ""]
Raise(e) == [exc |-> TRUE, v |-> Null, err |-> e]

\* value.get(key, default): a mapping answers, anything else has no .get
\* (AttributeError, which none of the readers catches).
Get(r, key, default) ==
    IF r.exc THEN r
    ELSE IF r.v.t # "map" THEN Raise("AttributeError")
    ELSE IF key \in DOMAIN r.v.m THEN Ret(r.v.m[key])
    ELSE Ret(default)

\* Python truthiness of an extracted field: None and "" are false.
Truthy(v) == v.t = "str" /\ v.s # ""

\* A file that is read and parsed: absent, unreadable (IOError), unparsable
\* (YAMLError / JSONDecodeError / not a gzip file), fatal (an error the reader
\* does not catch: a truncated gzip stream raises EOFError, bytes that are
\* not UTF-8 raise UnicodeDecodeError), or parsed to a value.
Absent == [st |-> "absent", val |-> Null]
Unreadable == [st |-> "ioerror", val |-> Null]
Unparsable == [st |-> "parseerror", val |-> Null]
Truncated == [st |-> "fatal", val |-> Null]
Parsed(v) == [st |-> "ok", val |-> v]

\* ------------------------------------------------------------ metadata readers
\* extract_buildset_from_inventory on the content of zuul-info/inventory.yaml.
extract_buildset_from_inventory(doc) ==
    IF doc.st = "absent" THEN Ret(Null)
    ELSE IF doc.st \in {"ioerror", "parseerror"} THEN Ret(Null)
    ELSE IF doc.st = "fatal" THEN Raise("UnicodeDecodeError")
    ELSE LET all == Get(Ret(doc.val), "all", EmptyMap)
             vars == Get(all, "vars", EmptyMap)
             zuul == Get(vars, "zuul", EmptyMap)
         IN  Get(zuul, "buildset", Null)

\* extract_project_canonical_name_from_inventory on the same content.
extract_project_canonical_name_from_inventory(doc) ==
    IF doc.st = "absent" THEN Ret(Null)
    ELSE IF doc.st \in {"ioerror", "parseerror"} THEN Ret(Null)
    ELSE IF doc.st = "fatal" THEN Raise("UnicodeDecodeError")
    ELSE LET all == Get(Ret(doc.val), "all", EmptyMap)
             vars == Get(all, "vars", EmptyMap)
             zuul == Get(vars, "zuul", EmptyMap)
             project == Get(zuul, "project", EmptyMap)
         IN  Get(project, "canonical_name", Null)

\* The result of check_job_success: a boolean, or an exception.
RetB(b) == [exc |-> FALSE, ok |-> b, err |-> ""]
RaiseB(e) == [exc |-> TRUE, ok |-> FALSE, err |-> e]

\* failures != 0 is false for the integer 0 and, as Python compares, for the
\* boolean false.
EqualsZero(v) == (v.t = "int" /\ v.n = 0) \/ (v.t = "bool" /\ ~v.b)

\* The loop over the records of job-output.json.gz from record i on: a
\* record that is not a mapping is skipped, a record whose failures field
\* (default 1) is not 0 ends the loop with False.
RECURSIVE ItemsFrom(_, _)
ItemsFrom(q, i) ==
    IF i > Len(q) THEN RetB(TRUE)
    ELSE IF q[i].t # "map" THEN ItemsFrom(q, i + 1)
    ELSE LET stats == Get(Ret(q[i]), "stats", EmptyMap)
             container == Get(stats, "container", EmptyMap)
             failures == Get(container, "failures", Int0(1))
         IN  IF failures.exc THEN RaiseB(failures.err)
             ELSE IF ~EqualsZero(failures.v) THEN RetB(FALSE)
             ELSE ItemsFrom(q, i + 1)

\* check_job_success on the content of job-output.json.gz.
check_job_success(doc) ==
    IF doc.st = "absent" THEN RetB(FALSE)
    ELSE IF doc.st \in {"ioerror", "parseerror"} THEN RetB(FALSE)
    ELSE IF doc.st = "fatal" THEN RaiseB("EOFError")
    ELSE IF doc.val.t = "seq" THEN ItemsFrom(doc.val.q, 1)
    ELSE RetB(FALSE)

\* ------------------------------------------------------- the documents drawn
\* An inventory as the tests write it (create_inventory_yaml).
Inventory(project, buildset) ==
    Parsed(Map([all |-> Map([vars |-> Map([zuul |->
        Map([buildset |-> buildset,
             project |-> Map([canonical_name |-> project])])])])]))
\* An inventory whose zuul mapping has a buildset and no project.
InventoryNoProject(buildset) ==
    Parsed(Map([all |-> Map([vars |-> Map([zuul |->
        Map([buildset |-> buildset])])])]))
\* An empty inventory.yaml: yaml.safe_load returns None.
InventoryEmpty == Parsed(Null)
\* A job output as the tests write it (create_job_output).
JobOutput(failures) ==
    Parsed(List(<<Map([stats |-> Map([container |->
        Map([failures |-> Int0(failures)])])])>>))
\* A record whose stats is null.
JobOutputNullStats == Parsed(List(<<Map([stats |-> Null])>>))

\* The inventories the flat trees draw from.
InvDocs ==
    {Absent, InventoryEmpty, InventoryNoProject(Str("b1")),
     Inventory(Str("p"), Str("b1")), Inventory(Str("p"), Str("b2")),
     Inventory(Str("q"), Str("b1"))}
\* The job outputs the flat trees draw from.
OutDocs == {Absent, JobOutput(0), JobOutput(1), JobOutputNullStats}

\* ------------------------------------------------------------ the filesystem
\* A path is the sequence of names below log_path; log_path itself is <<>>.
Root == <<>>
MarkerNames == {"zuul-info", "ara-database", "consoleText.txt"}
\* The directories the trees are built from, besides the root.
GenericPaths == {<<"a">>, <<"b">>, <<"a", "a">>, <<"a", "b">>}
DirSlots == {Root} \cup GenericPaths
MarkerPaths == {Append(d, m) : d \in DirSlots, m \in MarkerNames}
AllPaths == DirSlots \cup MarkerPaths
Kinds == {"none", "dir", "file", "link"}

Parent(p) == SubSeq(p, 1, Len(p) - 1)
Name(p) == p[Len(p)]
IsPrefix(d, p) == Len(d) <= Len(p) /\ \A i \in 1..Len(d) : p[i] = d[i]
\* The entries directly in a directory, and the subtree of a path.
Children == [d \in AllPaths |-> {q \in AllPaths : Len(q) = Len(d) + 1 /\ IsPrefix(d, q)}]
Tree == [d \in AllPaths |-> {p \in AllPaths : IsPrefix(d, p)}]
Above == [d \in AllPaths |-> {a \in AllPaths : a # d /\ IsPrefix(a, d)}]
Times == 0..InitTime

VARIABLES
    fs,         \* path -> kind of the entry at that path ("none": no entry)
    mtime,      \* path -> st_mtime of the entry
    inv,        \* directory -> content of <dir>/zuul-info/inventory.yaml, while
                \* the directory and its zuul-info exist
    out,        \* directory -> content of <dir>/job-output.json.gz, while the
                \* directory exists
    now,        \* the clock (datetime.now())
    args,       \* the parsed command line
    pc,         \* where the process is
    error,      \* the exception that ended the process ("": none)
    cycle,      \* the number of purge cycles started
    calculated_time,        \* the cutoff of the current cycle
    queue,                  \* the walk's work set
    project_buildsets,      \* the resolver's groups, in insertion order
    protected_buildsets,    \* the resolver's result
    job_dir,                \* the directory find_old_files has just yielded
    fs0,        \* history: fs when the current cycle started
    mtime0,     \* history: mtime when the current cycle started
    jobdirs,    \* history: directories the purge walk classified as job dirs
    walked,     \* history: directories the purge walk classified as non-job
    yielded,    \* history: directories find_old_files yielded in this cycle
    removed,    \* history: directories handed to delete_dir in this cycle
    prev        \* history: cutoff and flags of the previous completed cycle

vars == <<fs, mtime, inv, out, now, args, pc, error, cycle, calculated_time, queue,
          project_buildsets, protected_buildsets, job_dir,
          fs0, mtime0, jobdirs, walked, yielded, removed, prev>>
fsvars == <<fs, mtime, inv, out>>

\* Mutant of ls: the is_symlink test is dropped, so that a symlink lists as
\* the directory it points to.
ls_NoSymlinkCheck(dir_path) ==
    IF ~(dir_path \in AllPaths /\ fs[dir_path] = "dir") THEN [dirs |-> {}, files |-> {}]
    ELSE [dirs |-> {q \in Children[dir_path] : fs[q] \in {"dir", "link"}},
          files |-> {q \in Children[dir_path] : fs[q] = "file"}]

\* ls: the non-symlink directories and the non-symlink files directly in
\* dir_path; a path that is no directory (it vanished) lists as empty.
ls(dir_path) ==
    IF ~(dir_path \in AllPaths /\ fs[dir_path] = "dir") THEN [dirs |-> {}, files |-> {}]
    ELSE LET entries == Children[dir_path]
             docs == IF dir_path \in DirSlots /\ out[dir_path].st # "absent"
                     THEN {Append(dir_path, "job-output.json.gz")}
                     ELSE IF dir_path \in MarkerPaths /\ Name(dir_path) = "zuul-info"
                             /\ inv[Parent(dir_path)].st # "absent"
                     THEN {Append(dir_path, "inventory.yaml")}
                     ELSE {}
         IN  [dirs |-> {q \in entries : fs[q] = "dir"},
              files |-> {q \in entries : fs[q] = "file"} \cup docs]

\* Mutant of get_jobdir: the is_empty_dir alternative is dropped.
get_jobdir_NoEmptyRule(dirs, files) ==
    \/ "zuul-info" \in {Name(d) : d \in dirs}
    \/ "ara-database" \in {Name(d) : d \in dirs}
    \/ "consoleText.txt" \in {Name(f) : f \in files}

\* get_jobdir: whether a directory with this content is a job directory.
get_jobdir(dirs, files) ==
    LET dirs_name == {Name(d) : d \in dirs}
        files_name == {Name(f) : f \in files}
        is_zuul == "zuul-info" \in dirs_name
        is_jenkins == "ara-database" \in dirs_name
        is_jenkins_console == "consoleText.txt" \in files_name
        is_empty_dir == files = {} /\ dirs = {}
    IN  is_zuul \/ is_jenkins \/ is_jenkins_console \/ is_empty_dir

\* The inventory a reader finds below job_dir: open() goes through zuul-info
\* whether it is a directory or a symlink to one.
InventoryOf(d) ==
    IF d \in DirSlots /\ fs[d] = "dir" /\ fs[Append(d, "zuul-info")] \in {"dir", "link"}
    THEN inv[d] ELSE Absent
\* The job output a reader finds below job_dir.
JobOutputOf(d) ==
    IF d \in DirSlots /\ fs[d] = "dir" THEN out[d] ELSE Absent

\* ------------------------------------------------------------ initial states
NoTree == [p \in AllPaths |-> IF p = Root THEN "dir" ELSE "none"]
NoDocs == [d \in DirSlots |-> Absent]
NoPrev == [valid |-> FALSE, cutoff |-> 0, protected |-> {}]

\* What main and find_old_files hold before the first cycle.
InitProcess ==
    /\ now = InitTime
    /\ pc = "start"
    /\ error = ""
    /\ cycle = 0
    /\ calculated_time = 0
    /\ queue = {}
    /\ project_buildsets = <<>>
    /\ protected_buildsets = {}
    /\ job_dir = Root
    /\ fs0 = fs
    /\ mtime0 = mtime
    /\ jobdirs = {}
    /\ walked = {}
    /\ yielded = {}
    /\ removed = {}
    /\ prev = NoPrev

\* The marker entries a tree of the first family may hold, one at most.
MarkerChoices ==
    {[name |-> "zuul-info", kind |-> "dir"],
     [name |-> "zuul-info", kind |-> "file"],
     [name |-> "zuul-info", kind |-> "link"],
     [name |-> "ara-database", kind |-> "dir"],
     [name |-> "consoleText.txt", kind |-> "file"],
     [name |-> "consoleText.txt", kind |-> "dir"]}

\* First family: trees of every shape over a, b and a/a (directories and
\* symlinks of every age), with at most one marker entry and at most one job
\* directory with metadata; with and without --dry-run, and with
\* --build-success where there is metadata; one cycle.
InitShapes ==
    \E ka \in {"none", "dir", "link"}, kb \in {"none", "dir", "link"} :
    \E kaa \in IF ka = "dir" THEN {"none", "dir", "link"} ELSE {"none"} :
    \E marked \in BOOLEAN, meta \in BOOLEAN, md \in DirSlots, mc \in MarkerChoices :
    \E mt \in [DirSlots -> Times] :
    \E dry \in BOOLEAN, protect \in BOOLEAN :
    LET shape == [NoTree EXCEPT ![<<"a">>] = ka, ![<<"b">>] = kb, ![<<"a", "a">>] = kaa]
        withMeta == marked /\ meta /\ mc.name = "zuul-info" /\ mc.kind = "dir"
    IN  /\ marked => shape[md] = "dir"
        /\ ~marked => (md = Root /\ mc.name = "zuul-info" /\ mc.kind = "dir")
        /\ meta => withMeta
        /\ protect => withMeta
        /\ \A d \in DirSlots : shape[d] # "dir" => mt[d] = 0
        /\ fs = IF marked THEN [shape EXCEPT ![Append(md, mc.name)] = mc.kind] ELSE shape
        /\ mtime = [p \in AllPaths |-> IF p \in DirSlots THEN mt[p] ELSE 0]
        /\ inv = IF withMeta THEN [NoDocs EXCEPT ![md] = Inventory(Str("p"), Str("b1"))]
                 ELSE NoDocs
        /\ out = IF withMeta THEN [NoDocs EXCEPT ![md] = JobOutput(0)] ELSE NoDocs
        /\ args = [dry_run |-> dry, build_success |-> protect,
                   retention_days |-> MaxRetention, loop |-> 0]
        /\ InitProcess

\* Second family: the root holds the job directory b and the plain directory
\* a, which holds the job directories a/a and a/b; every job directory has
\* a zuul-info directory, an inventory, a job output and an age of its own;
\* --build-success is on and the process loops. a/a and a/b are
\* interchangeable, so only one order of their contents is drawn; their
\* jobs succeeded, and b carries every kind of metadata.
JobSlots == {<<"b">>, <<"a", "a">>, <<"a", "b">>}
PlainInvDocs ==
    <<Inventory(Str("p"), Str("b1")), Inventory(Str("p"), Str("b2")),
      Inventory(Str("q"), Str("b1"))>>
MetaDocs ==
    {[inv |-> i, out |-> o] :
        i \in {Absent} \cup {PlainInvDocs[k] : k \in 1..Len(PlainInvDocs)},
        o \in {JobOutput(0), JobOutput(1)}}
    \cup {[inv |-> i, out |-> JobOutput(0)] : i \in InvDocs}
    \cup {[inv |-> Inventory(Str("p"), Str("b1")), out |-> o] : o \in OutDocs}
    \cup {[inv |-> Inventory(Str("p"), Str("b2")), out |-> o] :
                o \in {Unreadable, Unparsable, Truncated}}
    \cup {[inv |-> i, out |-> JobOutput(0)] : i \in {Unreadable, Unparsable, Truncated}}
InitBuildsets ==
    \E mt \in [JobSlots -> Times] :
    \E mb \in MetaDocs :
    \E iaa \in 1..Len(PlainInvDocs), iab \in 1..Len(PlainInvDocs) :
        /\ mt[<<"a", "a">>] < mt[<<"a", "b">>]
            \/ (mt[<<"a", "a">>] = mt[<<"a", "b">>] /\ iaa <= iab)
        /\ fs = [p \in AllPaths |->
                    IF p \in JobSlots \cup {Root, <<"a">>} THEN "dir"
                    ELSE IF Parent(p) \in JobSlots /\ Name(p) = "zuul-info" THEN "dir"
                    ELSE "none"]
        /\ mtime = [p \in AllPaths |-> IF p \in JobSlots THEN mt[p] ELSE 0]
        /\ inv = [NoDocs EXCEPT ![<<"b">>] = mb.inv, ![<<"a", "a">>] = PlainInvDocs[iaa],
                                ![<<"a", "b">>] = PlainInvDocs[iab]]
        /\ out = [NoDocs EXCEPT ![<<"b">>] = mb.out, ![<<"a", "a">>] = JobOutput(0),
                                ![<<"a", "b">>] = JobOutput(0)]
        /\ args = [dry_run |-> FALSE, build_success |-> TRUE,
                   retention_days |-> 0, loop |-> 1]
        /\ InitProcess

Init == InitShapes \/ InitBuildsets

\* ------------------------------------------------------------------ resolver
\* datetime.min, the resolver's "no time yet".
MinTime == -1

\* project_buildsets[project_name][buildset].append(job_dir): the groups are
\* kept in the order the dictionaries first saw them.
AddJob(groups, project_name, buildset, d) ==
    IF \E i \in 1..Len(groups) :
            groups[i].project = project_name /\ groups[i].buildset = buildset
    THEN [i \in 1..Len(groups) |->
            IF groups[i].project = project_name /\ groups[i].buildset = buildset
            THEN [groups[i] EXCEPT !.job_dirs = Append(@, d)]
            ELSE groups[i]]
    ELSE Append(groups, [project |-> project_name, buildset |-> buildset,
                         job_dirs |-> <<d>>])

\* The loop over one buildset's job directories from the i-th on: the first
\* job that is not successful ends it; a job that vanished is skipped by the
\* time tracking.
RECURSIVE BuildsetFrom(_, _, _)
BuildsetFrom(job_dirs, i, buildset_time) ==
    IF i > Len(job_dirs)
    THEN [exc |-> FALSE, err |-> "", all_successful |-> TRUE, buildset_time |-> buildset_time]
    ELSE LET d == job_dirs[i]
             success == check_job_success(JobOutputOf(d))
         IN  IF success.exc
             THEN [exc |-> TRUE, err |-> success.err, all_successful |-> FALSE,
                   buildset_time |-> buildset_time]
             ELSE IF ~success.ok
             THEN [exc |-> FALSE, err |-> "", all_successful |-> FALSE,
                   buildset_time |-> buildset_time]
             ELSE IF fs[d] # "dir"
             THEN BuildsetFrom(job_dirs, i + 1, buildset_time)
             ELSE BuildsetFrom(job_dirs, i + 1,
                    IF mtime[d] > buildset_time THEN mtime[d] ELSE buildset_time)

\* successful_buildsets_with_time of one project: the indices of its groups
\* that are all successful and have a time.
SuccessfulOf(groups, project_name) ==
    {i \in 1..Len(groups) :
        /\ groups[i].project = project_name
        /\ LET r == BuildsetFrom(groups[i].job_dirs, 1, MinTime)
           IN  r.all_successful /\ r.buildset_time # MinTime}

\* Mutant of the selection: min instead of max.
LatestOf_Earliest(groups, candidates) ==
    CHOOSE i \in candidates :
        \A j \in candidates :
            LET ti == BuildsetFrom(groups[i].job_dirs, 1, MinTime).buildset_time
                tj == BuildsetFrom(groups[j].job_dirs, 1, MinTime).buildset_time
            IN  tj > ti \/ (tj = ti /\ i <= j)

\* max(successful_buildsets_with_time, key=time): the first of the latest.
LatestOf(groups, candidates) ==
    CHOOSE i \in candidates :
        \A j \in candidates :
            LET ti == BuildsetFrom(groups[i].job_dirs, 1, MinTime).buildset_time
                tj == BuildsetFrom(groups[j].job_dirs, 1, MinTime).buildset_time
            IN  tj < ti \/ (tj = ti /\ i <= j)

\* The second half of find_latest_successful_buildsets_per_project: the set
\* of the latest successful buildset of every project, or an exception.
latest_successful_buildsets(groups) ==
    IF \E i \in 1..Len(groups) : BuildsetFrom(groups[i].job_dirs, 1, MinTime).exc
    THEN [exc |-> TRUE, v |-> {},
          err |-> BuildsetFrom(groups[CHOOSE i \in 1..Len(groups) :
                    BuildsetFrom(groups[i].job_dirs, 1, MinTime).exc].job_dirs, 1, MinTime).err]
    ELSE [exc |-> FALSE, err |-> "",
          v |-> {groups[LatestOf(groups, SuccessfulOf(groups, groups[k].project))].buildset :
                    k \in {k \in 1..Len(groups) :
                            SuccessfulOf(groups, groups[k].project) # {}}}]

\* ------------------------------------------------------------- purge engine
\* Mutants of the age test: one day off, and a cutoff that counts as old.
IsOld_OffByOne(dir_date, cutoff) == dir_date + 1 < cutoff
IsOld_Inclusive(dir_date, cutoff) == dir_date <= cutoff
\* dir_date < calculated_time.
IsOld(dir_date, cutoff) == dir_date < cutoff

\* Mutants of the guard: without the root test, and without the dry-run test.
ShouldDelete_NoRootGuard(dry_run, log_path, d) == ~dry_run
ShouldDelete_NoDryRun(dry_run, log_path, d) == log_path # d
\* The guard of delete_dir in search_and_destroy.
ShouldDelete(dry_run, log_path, d) == ~dry_run /\ log_path # d

\* What the walk adds to its queue for a directory that is no job directory.
Enqueue(dirs) == dirs

\* Whether find_old_files skips an old job directory as protected; the
\* buildset is read only with --build-success.
IsProtected(protect, buildset, protected) ==
    protect /\ ~buildset.exc /\ Truthy(buildset.v) /\ buildset.v.s \in protected

\* shutil.rmtree: the whole subtree goes, and the parent directory, which
\* lost an entry, gets the current time as its modification time.
delete_dir(dir_path) ==
    /\ fs' = [p \in AllPaths |-> IF p \in Tree[dir_path] THEN "none" ELSE fs[p]]
    /\ mtime' = [p \in AllPaths |->
                    IF p \in Tree[dir_path] THEN 0
                    ELSE IF dir_path # Root /\ p = Parent(dir_path) THEN now
                    ELSE mtime[p]]
    /\ UNCHANGED <<inv, out>>

\* Mutant of the cutoff: computed once from the clock at process start, as
\* if the assignment stood before main's loop.
Cutoff_Stale(clock, retention_days) == InitTime - retention_days

\* datetime.now() - timedelta(days=args.retention_days).
Cutoff(clock, retention_days) == clock - retention_days

\* Mutant of the loop test: main always leaves its loop.
LoopContinues_Never(loop) == FALSE

\* if not args.loop: break (no --loop is None, modelled as 0).
LoopContinues(loop) == loop # 0

\* Mutants of the walk: one that leaves a job directory in the queue, one
\* that goes on below a job directory, one that
\* keeps the directory it walks in the work queue.
NextQueue_Descend(q, root, isjob, dirs) == (q \ {root}) \cup dirs
NextQueue_KeepJob(q, root, isjob, dirs) ==
    IF isjob THEN q ELSE (q \ {root}) \cup dirs
NextQueue_NoPop(q, root, isjob, dirs) == IF isjob THEN q \ {root} ELSE q \cup dirs

\* The work queue after one turn of a walk: root = queue.pop(), and
\* queue.update(current_dirs) unless root is a job directory.
NextQueue(q, root, isjob, dirs) ==
    IF isjob THEN q \ {root} ELSE (q \ {root}) \cup Enqueue(dirs)

\* Mutant of find_old_files' first lines: the resolver is never called.
FirstPass_NoResolver(protect_successful_buildsets) == "purge"

\* find_old_files starts with the resolver when protect_successful_buildsets
\* is set, and with its own walk otherwise.
FirstPass(protect_successful_buildsets) ==
    IF protect_successful_buildsets THEN "resolve" ELSE "purge"

\* An exception nobody catches ends the process.
Crash(e) ==
    /\ pc' = "crashed"
    /\ error' = e
    /\ UNCHANGED <<fs, mtime, inv, out, now, args, cycle, calculated_time, queue,
                   project_buildsets, protected_buildsets, job_dir,
                   fs0, mtime0, jobdirs, walked, yielded, removed, prev>>

\* main: a cycle starts; the cutoff is computed from the clock, and
\* find_old_files starts with the resolver's walk (--build-success) or with
\* its own.
StartCycle ==
    /\ pc = "start"
    /\ cycle < MaxCycles
    /\ cycle' = cycle + 1
    /\ calculated_time' = Cutoff(now, args.retention_days)
    /\ pc' = FirstPass(args.build_success)
    /\ queue' = {Root}
    /\ project_buildsets' = <<>>
    /\ protected_buildsets' = {}
    /\ fs0' = fs
    /\ mtime0' = mtime
    /\ jobdirs' = {}
    /\ walked' = {}
    /\ yielded' = {}
    /\ removed' = {}
    /\ UNCHANGED <<fs, mtime, inv, out, now, args, error, job_dir, prev>>

\* One turn of find_all_job_dirs' loop, with the resolver's handling of the
\* job directory it yields.
ResolverStep ==
    /\ pc = "resolve"
    /\ \E root \in queue :
        LET content == ls(root)
            project_name == extract_project_canonical_name_from_inventory(InventoryOf(root))
            buildset == extract_buildset_from_inventory(InventoryOf(root))
        IN  IF get_jobdir(content.dirs, content.files)
            THEN IF project_name.exc \/ buildset.exc
                 THEN Crash(IF project_name.exc THEN project_name.err ELSE buildset.err)
                 ELSE /\ queue' = NextQueue(queue, root, TRUE, content.dirs)
                      /\ project_buildsets' =
                            IF Truthy(project_name.v) /\ Truthy(buildset.v)
                            THEN AddJob(project_buildsets, project_name.v.s, buildset.v.s, root)
                            ELSE project_buildsets
                      /\ UNCHANGED <<fs, mtime, inv, out, now, args, error, pc, cycle,
                                     calculated_time, protected_buildsets, job_dir,
                                     fs0, mtime0, jobdirs, walked, yielded, removed, prev>>
            ELSE /\ queue' = NextQueue(queue, root, FALSE, content.dirs)
                 /\ UNCHANGED <<fs, mtime, inv, out, now, args, error, pc, cycle,
                                calculated_time, project_buildsets, protected_buildsets,
                                job_dir, fs0, mtime0, jobdirs, walked, yielded, removed, prev>>

\* The resolver's walk is over: the protected set is computed and
\* find_old_files starts its own walk.
ResolverFinish ==
    /\ pc = "resolve"
    /\ queue = {}
    /\ LET latest == latest_successful_buildsets(project_buildsets)
       IN  IF latest.exc
           THEN Crash(latest.err)
           ELSE /\ protected_buildsets' = latest.v
                /\ pc' = "purge"
                /\ queue' = {Root}
                /\ UNCHANGED <<fs, mtime, inv, out, now, args, error, cycle, calculated_time,
                               project_buildsets, job_dir,
                               fs0, mtime0, jobdirs, walked, yielded, removed, prev>>

\* One turn of find_old_files' loop.
PurgeStep ==
    /\ pc = "purge"
    /\ \E root \in queue :
        LET content == ls(root)
            isjob == get_jobdir(content.dirs, content.files)
            old == fs[root] = "dir" /\ IsOld(mtime[root], calculated_time)
            buildset == extract_buildset_from_inventory(InventoryOf(root))
            project_name == extract_project_canonical_name_from_inventory(InventoryOf(root))
            protected == IsProtected(args.build_success, buildset, protected_buildsets)
        IN  IF isjob /\ old /\ args.build_success /\ (buildset.exc \/ (protected /\ project_name.exc))
            THEN Crash(IF buildset.exc THEN buildset.err ELSE project_name.err)
            ELSE /\ queue' = NextQueue(queue, root, isjob, content.dirs)
                 /\ jobdirs' = IF isjob THEN jobdirs \cup {root} ELSE jobdirs
                 /\ walked' = IF isjob THEN walked ELSE walked \cup {root}
                 /\ IF isjob /\ old /\ ~protected
                    THEN /\ pc' = "yield"
                         /\ job_dir' = root
                         /\ yielded' = yielded \cup {root}
                    ELSE UNCHANGED <<pc, job_dir, yielded>>
                 /\ UNCHANGED <<fs, mtime, inv, out, now, args, error, cycle, calculated_time,
                                project_buildsets, protected_buildsets,
                                fs0, mtime0, removed, prev>>

\* search_and_destroy's loop body for the directory just yielded.
Destroy ==
    /\ pc = "yield"
    /\ IF ShouldDelete(args.dry_run, Root, job_dir)
       THEN IF fs[job_dir] # "dir"
            THEN Crash("FileNotFoundError")
            ELSE /\ delete_dir(job_dir)
                 /\ removed' = removed \cup {job_dir}
                 /\ pc' = "purge"
                 /\ UNCHANGED <<now, args, error, cycle, calculated_time, queue,
                                project_buildsets, protected_buildsets, job_dir,
                                fs0, mtime0, jobdirs, walked, yielded, prev>>
       ELSE /\ pc' = "purge"
            /\ UNCHANGED <<fs, mtime, inv, out, now, args, error, cycle, calculated_time, queue,
                           project_buildsets, protected_buildsets, job_dir,
                           fs0, mtime0, jobdirs, walked, yielded, removed, prev>>

\* search_and_destroy returns: main leaves its loop, or goes to sleep.
EndCycle ==
    /\ pc = "purge"
    /\ queue = {}
    /\ pc' = IF LoopContinues(args.loop) THEN "sleep" ELSE "done"
    /\ prev' = [valid |-> TRUE, cutoff |-> calculated_time,
                 protected |-> protected_buildsets]
    /\ UNCHANGED <<fs, mtime, inv, out, now, args, error, cycle, calculated_time, queue,
                   project_buildsets, protected_buildsets, job_dir,
                   fs0, mtime0, jobdirs, walked, yielded, removed>>

\* time.sleep(args.loop): the clock may have advanced when the next cycle
\* starts.
Sleep ==
    /\ pc = "sleep"
    /\ \E dt \in {0, 1} :
        /\ now + dt <= MaxTime
        /\ now' = now + dt
    /\ pc' = "start"
    /\ UNCHANGED <<fs, mtime, inv, out, args, error, cycle, calculated_time, queue,
                   project_buildsets, protected_buildsets, job_dir,
                   fs0, mtime0, jobdirs, walked, yielded, removed, prev>>

Next ==
    \/ StartCycle
    \/ ResolverStep
    \/ ResolverFinish
    \/ PurgeStep
    \/ Destroy
    \/ EndCycle
    \/ Sleep

Spec == Init /\ [][Next]_vars

\* The process is scheduled and time.sleep returns: a step that can be taken
\* is taken. Checked on the trees that hold the directory a and, as a
\* directory or a symlink, b, whose directories are all as old as can be and
\* whose jobs with an inventory succeeded.
InitLive ==
    /\ Init
    /\ \A d \in DirSlots : mtime[d] = 0
    /\ fs[<<"a">>] = "dir" /\ fs[<<"b">>] \in {"dir", "link"}
    /\ \A d \in DirSlots : inv[d].st = "ok" => out[d] = JobOutput(0)
    /\ inv[<<"a", "b">>] \in {Absent, PlainInvDocs[2]}

SpecLive == InitLive /\ [][Next]_vars /\ WF_vars(Next)

\* ------------------------------------------------------ concurrent deletion
\* How many directories another process deletes in one cycle.
MaxExternal == 1

\* The directories that went away in this cycle without this process
\* deleting them or a directory above them; the topmost of them.
ExternallyDeleted ==
    {d \in DirSlots \ {Root} :
        /\ fs0[d] = "dir" /\ fs[d] = "none"
        /\ ~\E r \in removed : IsPrefix(r, d)}
ExternalRoots == {d \in ExternallyDeleted : Parent(d) \notin ExternallyDeleted}

\* Another process (a second instance of the tool) removes a directory with
\* its subtree while this one is in a cycle.
ExternalDelete ==
    /\ pc \in {"resolve", "purge", "yield"}
    /\ Cardinality(ExternalRoots) < MaxExternal
    /\ \E d \in DirSlots \ {Root} :
        /\ fs[d] = "dir"
        /\ delete_dir(d)
    /\ UNCHANGED <<now, args, pc, error, cycle, calculated_time, queue,
                   project_buildsets, protected_buildsets, job_dir,
                   fs0, mtime0, jobdirs, walked, yielded, removed, prev>>

\* The trees of the second family in which b is a job of project p, all
\* metadata parses and every job directory is either as old as can be or as
\* young as the clock, shared with another process that deletes.
InitConcurrent ==
    /\ InitBuildsets
    /\ inv[<<"b">>] \in {PlainInvDocs[1], PlainInvDocs[2]}
    /\ out[<<"b">>] \in {JobOutput(0), JobOutput(1)}
    /\ \A d \in JobSlots : mtime[d] \in {0, InitTime}

NextConcurrent ==
    \/ Next
    \/ ExternalDelete

SpecConcurrent == InitConcurrent /\ [][NextConcurrent]_vars

\* ------------------------------------------------- dry run, then real run
\* The tool is run with --dry-run and, when it has exited, once more without
\* it on the same tree and at the same time, so with the same cutoff; what
\* the dry run reported ("Removing old log directory": every directory
\* find_old_files yielded) is kept for the comparison.
RealRun ==
    /\ pc = "done"
    /\ args.dry_run
    /\ args' = [args EXCEPT !.dry_run = FALSE]
    /\ prev' = [valid |-> TRUE, cutoff |-> calculated_time,
                 protected |-> protected_buildsets, reported |-> yielded]
    /\ pc' = "start"
    /\ UNCHANGED <<fs, mtime, inv, out, now, error, cycle, calculated_time, queue,
                   project_buildsets, protected_buildsets, job_dir,
                   fs0, mtime0, jobdirs, walked, yielded, removed>>

\* The trees of the first family, and the tree of the second family in which
\* b is a job of project q and a/a and a/b are successful jobs of the
\* buildsets b1 and b2 of project p, each as old as can be or as young as
\* the clock; the process is started with --dry-run and without a loop.
InitDryRun ==
    \/ InitShapes /\ args.dry_run
    \/ \E mt \in [JobSlots -> {0, InitTime}] :
        /\ fs = [p \in AllPaths |->
                    IF p \in JobSlots \cup {Root, <<"a">>} THEN "dir"
                    ELSE IF Parent(p) \in JobSlots /\ Name(p) = "zuul-info" THEN "dir"
                    ELSE "none"]
        /\ mtime = [p \in AllPaths |-> IF p \in JobSlots THEN mt[p] ELSE 0]
        /\ inv = [NoDocs EXCEPT ![<<"b">>] = PlainInvDocs[3],
                                ![<<"a", "a">>] = PlainInvDocs[1],
                                ![<<"a", "b">>] = PlainInvDocs[2]]
        /\ out = [d \in DirSlots |-> IF d \in JobSlots THEN JobOutput(0) ELSE Absent]
        /\ args = [dry_run |-> TRUE, build_success |-> TRUE,
                   retention_days |-> 0, loop |-> 0]
        /\ InitProcess

\* Without a loop main never sleeps.
NextDryThenReal ==
    \/ StartCycle
    \/ ResolverStep
    \/ ResolverFinish
    \/ PurgeStep
    \/ Destroy
    \/ EndCycle
    \/ RealRun

SpecDryThenReal == InitDryRun /\ [][NextDryThenReal]_vars

\* ------------------------------------------------------- job output documents
\* How many records a drawn job output has at most.
MaxRecords == 2

\* A record with the given stats.container.failures value.
RecordWith(failures) ==
    Map([stats |-> Map([container |-> Map([failures |-> failures])])])
\* The elements a drawn job output is made of: records whose failures field
\* is 0, 1, false or null, a record without stats, a record whose stats is
\* null, and a number where a record is expected.
Records ==
    {RecordWith(Int0(0)), RecordWith(Int0(1)), RecordWith(Bool0(FALSE)),
     RecordWith(Null), EmptyMap, Map([stats |-> Null]), Int0(0)}
\* What job-output.json.gz can be: no file, an unreadable one, one that does
\* not parse, a truncated one, a null or a mapping at the top, or a sequence
\* of up to MaxRecords elements.
CheckDocs ==
    {Absent, Unreadable, Unparsable, Truncated, Parsed(Null), Parsed(EmptyMap)}
    \cup {Parsed(List(q)) : q \in UNION {[1..n -> Records] : n \in 0..MaxRecords}}

\* The root holds the old job directory b of buildset b1 of project p, with
\* a job output drawn from CheckDocs; --build-success is on and the
\* process loops, so that the resolver calls check_job_success on b in
\* every cycle.
InitCheckSuccess ==
    \E doc \in CheckDocs :
        /\ fs = [NoTree EXCEPT ![<<"b">>] = "dir", ![<<"b", "zuul-info">>] = "dir"]
        /\ mtime = [p \in AllPaths |-> 0]
        /\ inv = [NoDocs EXCEPT ![<<"b">>] = Inventory(Str("p"), Str("b1"))]
        /\ out = [NoDocs EXCEPT ![<<"b">>] = doc]
        /\ args = [dry_run |-> FALSE, build_success |-> TRUE,
                   retention_days |-> 0, loop |-> 1]
        /\ InitProcess

SpecCheckSuccess == InitCheckSuccess /\ [][Next]_vars

\* ------------------------------------------------------------------- claims
\* The tree as it was when the current cycle started, read without the
\* program's own ls and get_jobdir.
ProperAncestors(d) == Above[d]
SubdirNamed0(d, n) == \E q \in Children[d] : Name(q) = n /\ fs0[q] = "dir"
FileNamed0(d, n) == \E q \in Children[d] : Name(q) = n /\ fs0[q] = "file"
HasDocFile0(d) ==
    \/ d \in DirSlots /\ out[d].st # "absent"
    \/ d \in MarkerPaths /\ Name(d) = "zuul-info" /\ inv[Parent(d)].st # "absent"
HasMarker0(d) ==
    \/ SubdirNamed0(d, "zuul-info")
    \/ SubdirNamed0(d, "ara-database")
    \/ FileNamed0(d, "consoleText.txt")
\* No entry at all, and no entry but symlinks.
NoEntries0(d) == ~HasDocFile0(d) /\ \A q \in Children[d] : fs0[q] = "none"
OnlyLinks0(d) == ~HasDocFile0(d) /\ \A q \in Children[d] : fs0[q] \in {"none", "link"}
IsJobDir0(d) == fs0[d] = "dir" /\ (HasMarker0(d) \/ OnlyLinks0(d))
\* A directory the walk reaches: every proper ancestor is a directory that is
\* no job directory.
Reached0(d) == \A a \in ProperAncestors(d) : fs0[a] = "dir" /\ ~IsJobDir0(a)
Gone(d) == \A p \in Tree[d] : fs[p] = "none"
\* search_and_destroy has returned.
Returned == pc \in {"done", "sleep"}

\* C1: in every purge run, whatever the tree, the cutoff and the flags, the
\* root path is never deleted and never handed to the deleter, also when the
\* root is itself an old job directory.
C1_RootNeverDeleted == fs[Root] = "dir" /\ Root \notin removed
\* The root was an old job directory, was yielded, and the loop body of
\* search_and_destroy has run for it with dry-run off.
C1_Witness ==
    /\ pc = "purge" /\ Root \in yielded /\ ~args.dry_run
    /\ IsJobDir0(Root) /\ mtime0[Root] < calculated_time

\* C2: with dry-run enabled no step of a purge run changes the filesystem:
\* the entries (directories, files, symlinks) and every modification time
\* stay as they are.
C2_DryRunNoMutation == [][args.dry_run => UNCHANGED <<fs, mtime, inv, out>>]_vars
\* A dry run reported an old job directory below the root and went on.
C2_Witness ==
    /\ args.dry_run /\ Returned /\ (yielded \ {Root}) # {}
    /\ \A d \in yielded : fs[d] = "dir"

\* C3: with protection and dry-run off, when search_and_destroy returns,
\* every directory other than the root that was a job directory, had only
\* non-job directories as proper ancestors and was older than the cutoff is
\* gone with its whole subtree, whatever metadata it held.
C3_EligibleDeleted ==
    (Returned /\ ~args.build_success /\ ~args.dry_run) =>
        \A d \in AllPaths \ {Root} :
            (IsJobDir0(d) /\ Reached0(d) /\ mtime0[d] < calculated_time) => Gone(d)
\* Such a directory, with an inventory and a job output in it, was deleted.
C3_Witness ==
    /\ Returned /\ ~args.build_success /\ ~args.dry_run
    /\ \E d \in DirSlots \ {Root} :
        /\ IsJobDir0(d) /\ Reached0(d) /\ mtime0[d] < calculated_time
        /\ inv[d].st = "ok" /\ out[d].st = "ok"
        /\ Gone(d)

\* C4: only job directories strictly older than the cutoff are handed to the
\* deleter; a job directory the walk found with a modification time equal to
\* or later than the cutoff, and every directory walked as a non-job
\* directory, still exists, also when all its children were deleted.
C4_OnlyOldJobDirsDeleted ==
    /\ \A d \in removed : d \in jobdirs /\ IsJobDir0(d) /\ mtime0[d] < calculated_time
    /\ \A d \in jobdirs : mtime0[d] >= calculated_time => fs[d] = "dir"
    /\ \A d \in walked : fs[d] = "dir"
\* A walked directory lost all its subdirectories in the run and is still
\* there, and so is a job directory whose age equals the cutoff.
C4_Witness ==
    /\ Returned
    /\ \E d \in walked \ {Root} :
        /\ \E c \in Children[d] : fs0[c] = "dir"
        /\ \A c \in Children[d] : fs0[c] = "dir" => fs[c] = "none"
        /\ fs[d] = "dir"
    /\ \E j \in jobdirs : mtime0[j] = calculated_time /\ fs[j] = "dir"

\* The buildsets of the tree as it was when the cycle started: the job
\* directories the walk reaches, grouped by the project and the buildset
\* their inventories name.
ProjectNames == {"p", "q"}
BuildsetIds == {"b1", "b2"}
Found0 == {d \in DirSlots : IsJobDir0(d) /\ Reached0(d)}
Inventory0(d) == IF fs0[Append(d, "zuul-info")] \in {"dir", "link"} THEN inv[d] ELSE Absent
Members0(P, B) ==
    {d \in Found0 :
        LET project_name == extract_project_canonical_name_from_inventory(Inventory0(d))
            buildset == extract_buildset_from_inventory(Inventory0(d))
        IN  /\ ~project_name.exc /\ ~buildset.exc
            /\ Truthy(project_name.v) /\ Truthy(buildset.v)
            /\ project_name.v.s = P /\ buildset.v.s = B}
Succeeded0(d) == LET r == check_job_success(out[d]) IN ~r.exc /\ r.ok
FullySuccessful0(P, B) ==
    Members0(P, B) # {} /\ \A d \in Members0(P, B) : Succeeded0(d)
Latest0(P, B) ==
    CHOOSE t \in {mtime0[d] : d \in Members0(P, B)} :
        \A d \in Members0(P, B) : mtime0[d] <= t
SuccessfulOf0(P) == {B \in BuildsetIds : FullySuccessful0(P, B)}

\* C5: with protection enabled, for every project with two or more fully
\* successful buildsets of different latest-job timestamps, after the run
\* the job directories of the buildset with the maximum timestamp exist and
\* every job directory of the project's other successful buildsets that is
\* older than the cutoff has been deleted.
C5_OnlyLatestProtected ==
    (Returned /\ args.build_success /\ ~args.dry_run) =>
        \A P \in ProjectNames :
            (/\ Cardinality(SuccessfulOf0(P)) >= 2
             /\ \A B1, B2 \in SuccessfulOf0(P) : B1 # B2 => Latest0(P, B1) # Latest0(P, B2))
            => \A B \in SuccessfulOf0(P) :
                IF \A B2 \in SuccessfulOf0(P) : Latest0(P, B2) <= Latest0(P, B)
                THEN \A d \in Members0(P, B) : fs[d] = "dir"
                ELSE \A d \in Members0(P, B) : mtime0[d] < calculated_time => Gone(d)

\* C6: with protection enabled, a buildset with a member that reports
\* failures, or whose job output is missing or unreadable, is never
\* protected: after the run every one of its job directories older than the
\* cutoff has been deleted, the successful members included.
C6_FailedNeverProtected ==
    (Returned /\ args.build_success /\ ~args.dry_run) =>
        \A P \in ProjectNames, B \in BuildsetIds :
            (\E d \in Members0(P, B) : ~Succeeded0(d))
            => \A d \in Members0(P, B) : mtime0[d] < calculated_time => Gone(d)

\* C7: a second run with the same cutoff and flags, right after a first one,
\* deletes nothing.
C7_SecondRunDeletesNothing ==
    (/\ cycle >= 2 /\ pc \in {"purge", "yield"} /\ ~args.dry_run
     /\ prev.valid /\ prev.cutoff = calculated_time)
        => removed = {}

\* C8: symlinks are ignored by the walk: a symlink is never listed by ls as
\* a directory or a file, never in the work queue, never classified (as a
\* job directory or as a directory to walk), never yielded and never handed
\* to the deleter, whatever its age; a symlink goes away only with the job
\* directory that holds it, which is deleted under its own real path.
C8_SymlinksIgnored ==
    /\ \A p \in AllPaths : fs[p] = "link" =>
            /\ p \notin queue
            /\ \A d \in AllPaths : p \notin ls(d).dirs \cup ls(d).files
    /\ \A p \in AllPaths : fs0[p] = "link" =>
            /\ p \notin jobdirs \cup walked \cup yielded \cup removed
            /\ fs[p] \in {"link", "none"}
            /\ fs[p] = "none" => \E d \in removed : d # p /\ IsPrefix(d, p)
\* A run that deletes walked a directory that holds an old symlink, deleted
\* an old job directory next to it and left the symlink where it was.
C8_Witness ==
    /\ Returned /\ ~args.dry_run /\ removed # {}
    /\ \E p \in AllPaths :
        /\ fs0[p] = "link" /\ fs[p] = "link" /\ Parent(p) \in walked
        /\ mtime0[p] < calculated_time

C10_ReadersNeverRaise ==
    ~(pc = "crashed" /\ error \in {"AttributeError", "EOFError", "UnicodeDecodeError"})

\* C11: with protection enabled, a job directory of which the project name
\* or the buildset id cannot be extracted is never protected: it is in no
\* buildset group, and when the run has returned it is gone if it was older
\* than the cutoff, whatever other job directories the tree holds.
Keyless0(d) ==
    LET project_name == extract_project_canonical_name_from_inventory(Inventory0(d))
        buildset == extract_buildset_from_inventory(Inventory0(d))
    IN  /\ ~project_name.exc /\ ~buildset.exc
        /\ ~(Truthy(project_name.v) /\ Truthy(buildset.v))
C11_KeylessNeverProtected ==
    (args.build_success /\ ~args.dry_run) =>
        \A d \in Found0 \ {Root} : Keyless0(d) =>
            /\ \A i \in 1..Len(project_buildsets) :
                    \A k \in 1..Len(project_buildsets[i].job_dirs) :
                        project_buildsets[i].job_dirs[k] # d
            /\ (Returned /\ mtime0[d] < calculated_time) => Gone(d)

\* The buildsets of the tree at the start of the cycle without the
\* directories another process deleted during the cycle.
MembersX(P, B) == Members0(P, B) \ ExternallyDeleted
SuccessfulX(P, B) == MembersX(P, B) # {} /\ \A d \in MembersX(P, B) : Succeeded0(d)
LatestX(P, B) ==
    CHOOSE t \in {mtime0[d] : d \in MembersX(P, B)} :
        \A d \in MembersX(P, B) : mtime0[d] <= t

\* C12: a directory another process deletes during a cycle is treated as
\* if it had never existed in that cycle; in particular the remaining
\* members of its buildset are protected exactly as in a tree without it:
\* when they all succeeded and theirs is the strictly latest successful
\* buildset of the project among the remaining directories, they are all
\* still there when the run has returned.
C12_VanishedAsIfAbsent ==
    (Returned /\ args.build_success /\ ~args.dry_run) =>
        \A P \in ProjectNames, B \in BuildsetIds :
            (/\ SuccessfulX(P, B)
             /\ \A B2 \in BuildsetIds \ {B} :
                    SuccessfulX(P, B2) => LatestX(P, B2) < LatestX(P, B))
            => \A d \in MembersX(P, B) : fs[d] = "dir"

\* C13: with another process deleting directories of the same tree, no
\* interleaving ends a cycle with a fatal error: a directory that vanished
\* before it is listed, stat-ed or deleted is skipped.
C13_NoFatalError == ~(pc = "crashed" /\ error = "FileNotFoundError")

\* What the resolver may answer for the tree as it was when the cycle
\* started: of every project with a fully successful buildset, one of its
\* successful buildsets of the latest time.
Time0(P, B) == IF FullySuccessful0(P, B) THEN Latest0(P, B) ELSE MinTime
SuccessTimes0 == {<<P, B, Time0(P, B)>> : P \in ProjectNames, B \in BuildsetIds}
Winners0(table, P) ==
    {e[2] : e \in {x \in table :
                    /\ x[1] = P /\ x[3] # MinTime
                    /\ \A y \in table : y[1] = P => y[3] <= x[3]}}
ProtectedSets0 ==
    LET table == SuccessTimes0
        projects == {P \in ProjectNames : Winners0(table, P) # {}}
    IN  {{f[P] : P \in projects} :
            f \in {g \in [projects -> BuildsetIds] :
                    \A P \in projects : g[P] \in Winners0(table, P)}}
\* The buildset id a job directory carried when the cycle started.
BuildsetId0(d) == extract_buildset_from_inventory(Inventory0(d))

\* C14: no state carries between cycles: during every cycle the cutoff is
\* the current time minus the retention, with protection the protected set
\* the purge walk starts with is one the tree of this cycle's start yields,
\* and what the cycle deleted are job directories of that tree, older than
\* this cycle's cutoff and without a buildset id in this cycle's protected
\* set.
C14_NoStateCarried ==
    /\ pc \in {"resolve", "purge", "yield", "done", "sleep"} =>
            calculated_time = now - args.retention_days
    /\ (pc = "purge" /\ jobdirs = {} /\ walked = {} /\ args.build_success) =>
            protected_buildsets \in ProtectedSets0
    /\ \A d \in removed :
            /\ IsJobDir0(d) /\ Reached0(d) /\ mtime0[d] < calculated_time
            /\ (args.build_success /\ d \in DirSlots) =>
                ~(Truthy(BuildsetId0(d).v) /\ BuildsetId0(d).v.s \in protected_buildsets)
\* A second cycle has finished its walk; its cutoff and its protected set
\* both differ from those of the first, and it deleted a directory.
C14_Witness ==
    /\ cycle = 2 /\ pc = "purge" /\ queue = {} /\ args.build_success /\ prev.valid
    /\ calculated_time # prev.cutoff
    /\ protected_buildsets # prev.protected
    /\ removed # {}

Grouped ==
    UNION {{project_buildsets[i].job_dirs[k] :
                k \in 1..Len(project_buildsets[i].job_dirs)} :
            i \in 1..Len(project_buildsets)}
Handled == queue \cup Grouped \cup jobdirs \cup walked \cup yielded \cup removed

\* C16: a job directory is never traversed into: in the resolver walk and
\* in the purge walk no path below a job directory is ever in the work
\* queue, grouped, classified, yielded or deleted on its own, and whatever
\* lies below a job directory that was not deleted stays as it was, a
\* nested job directory included.
C16_JobDirNotTraversed ==
    /\ \A d \in Handled : Reached0(d)
    /\ \A j \in jobdirs \cup Grouped : \A p \in Tree[j] \ {j} : p \notin Handled
    /\ \A j \in jobdirs \ removed : \A p \in Tree[j] :
            fs[p] = fs0[p] /\ mtime[p] = mtime0[p]
\* A run that deletes has returned: an old empty directory, a job directory
\* if it stood alone, lies below a younger job directory and is still there.
C16_Witness ==
    /\ Returned /\ ~args.dry_run
    /\ \E j \in jobdirs : \E c \in Children[j] \cap DirSlots :
        /\ HasMarker0(j) /\ mtime0[j] >= calculated_time
        /\ fs0[c] = "dir" /\ OnlyLinks0(c) /\ mtime0[c] < calculated_time
        /\ fs[c] = "dir"

\* Every path at or below a directory of the work queue.
Pending(q) == UNION {Tree[d] : d \in q}

\* C17: every walk terminates, whatever the order in which directories
\* leave the work queue and whatever symlinks the tree holds: each turn of
\* a walk takes a directory out of the paths still pending and adds none, so
\* that no directory is popped and classified twice in a walk, and the
\* resolver walk and the purge walk both come to their end.
C17_WalkTerminates ==
    /\ [][(queue # {} /\ queue' # queue) =>
            /\ Pending(queue') \subseteq Pending(queue)
            /\ \E root \in queue : root \notin Pending(queue')]_vars
    /\ (pc = "resolve") ~> (pc \in {"purge", "crashed"})
    /\ (pc \in {"purge", "yield"}) ~> (pc \in {"done", "sleep", "crashed"})
\* A purge walk has ended on a tree with a symlink next to a directory that
\* was walked and that held a job directory.
C17_Witness ==
    /\ Returned
    /\ fs0[<<"b">>] = "link"
    /\ <<"a">> \in walked /\ <<"a", "a">> \in jobdirs

\* C18: with protection the resolver's walk and the computation of the
\* protected set are over before the purge pass classifies or deletes
\* anything: while the resolver runs the tree is as the cycle found it and
\* nothing is classified, yielded or deleted; the purge pass starts only
\* from the resolver's end (without protection, from the start of the
\* cycle with an empty protected set); the resolver starts only with a
\* new cycle; and no step of the purge pass changes the protected set.
C18_ResolverFirst ==
    /\ [](pc = "resolve" =>
            /\ args.build_success
            /\ fs = fs0 /\ mtime = mtime0
            /\ jobdirs = {} /\ walked = {} /\ yielded = {} /\ removed = {})
    /\ [][/\ (pc' \in {"purge", "yield"} /\ pc \notin {"purge", "yield"}) =>
                IF args.build_success
                THEN pc = "resolve" /\ queue = {}
                ELSE pc = "start" /\ protected_buildsets' = {}
          /\ (pc' = "resolve" /\ pc # "resolve") =>
                (pc = "start" /\ cycle' = cycle + 1)
          /\ pc \in {"purge", "yield"} =>
                protected_buildsets' = protected_buildsets]_vars
\* The purge pass of a protecting run has deleted one job directory and has
\* skipped another old one, whose buildset the resolver had protected.
C18_Witness ==
    /\ pc = "purge" /\ args.build_success /\ removed # {}
    /\ \E d \in jobdirs \cap DirSlots :
        /\ mtime0[d] < calculated_time /\ fs[d] = "dir"
        /\ Truthy(BuildsetId0(d).v) /\ BuildsetId0(d).v.s \in protected_buildsets

\* C19: when the resolver has returned, its groups are the job directories
\* that have both a project and a buildset id, grouped by (project,
\* buildset), and its result holds, of every project with at least one
\* group whose members all report zero failures, exactly one buildset id,
\* that of a group of the maximum latest member time among the project's
\* all-successful groups, and nothing else.
C19_ResolverResult ==
    (pc = "purge" /\ jobdirs = {} /\ walked = {} /\ args.build_success) =>
        /\ \A i \in 1..Len(project_buildsets) :
            LET g == project_buildsets[i]
            IN  /\ {g.job_dirs[k] : k \in 1..Len(g.job_dirs)} = Members0(g.project, g.buildset)
                /\ \A j \in 1..Len(project_buildsets) :
                    (project_buildsets[j].project = g.project
                        /\ project_buildsets[j].buildset = g.buildset) => j = i
        /\ \A P \in ProjectNames, B \in BuildsetIds :
            Members0(P, B) # {} =>
                \E i \in 1..Len(project_buildsets) :
                    project_buildsets[i].project = P /\ project_buildsets[i].buildset = B
        /\ protected_buildsets \in ProtectedSets0
\* The resolver has returned for a tree in which project p has two
\* successful buildsets of different times and project q has one: the
\* later one of p and the one of q are the result.
C19_Witness ==
    /\ pc = "purge" /\ jobdirs = {} /\ walked = {} /\ args.build_success
    /\ Cardinality(SuccessfulOf0("p")) = 2
    /\ Time0("p", "b1") < Time0("p", "b2")
    /\ SuccessfulOf0("q") = {"b1"}
    /\ protected_buildsets = {"b1", "b2"}

\* The groups the resolver builds when its walk yields the job directories
\* in the given order, from the i-th on.
RECURSIVE GroupsFrom(_, _, _)
GroupsFrom(order, i, groups) ==
    IF i > Len(order) THEN groups
    ELSE LET d == order[i]
             project_name == extract_project_canonical_name_from_inventory(InventoryOf(d))
             buildset == extract_buildset_from_inventory(InventoryOf(d))
         IN  GroupsFrom(order, i + 1,
                IF Truthy(project_name.v) /\ Truthy(buildset.v)
                THEN AddJob(groups, project_name.v.s, buildset.v.s, d)
                ELSE groups)
\* Every order in which a walk can yield the job directories of the groups:
\* once the directories above them have left the queue, they can be popped
\* in any order.
Orders(S) ==
    {order \in [1..Cardinality(S) -> S] :
        \A i, j \in 1..Cardinality(S) : order[i] = order[j] => i = j}

\* C20: the traversal order does not affect the outcome: whatever the
\* order in which the walk yields the job directories, also when two
\* successful buildsets of a project have the same latest time, the
\* resolver answers the protected set it answered in this run.
C20_OrderIndependent ==
    (pc = "purge" /\ jobdirs = {} /\ walked = {} /\ args.build_success) =>
        \A order \in Orders(Grouped) :
            latest_successful_buildsets(GroupsFrom(order, 1, <<>>)).v = protected_buildsets

\* The value of a record's stats.container.failures field, a field that is
\* absent counting as 1.
FailuresField(record) ==
    IF record.t = "map" /\ "stats" \in DOMAIN record.m
    THEN LET stats == record.m["stats"]
         IN  IF stats.t = "map" /\ "container" \in DOMAIN stats.m
             THEN LET container == stats.m["container"]
                  IN  IF container.t = "map" /\ "failures" \in DOMAIN container.m
                      THEN container.m["failures"]
                      ELSE Int0(1)
             ELSE Int0(1)
    ELSE Int0(1)
\* The job output exists, is readable and parsable, is a sequence, and the
\* failures field of every record is exactly 0.
ZeroFailures(doc) ==
    /\ doc.st = "ok"
    /\ doc.val.t = "seq"
    /\ \A i \in 1..Len(doc.val.q) : FailuresField(doc.val.q[i]) = Int0(0)

\* C21: check_success answers true for a job directory if and only if
\* job-output.json.gz exists, is readable and parsable, is a sequence and
\* every record of it has stats.container.failures equal to exactly 0, an
\* absent field counting as 1; in every other case it answers false. Stated
\* for the job directories the resolver has grouped, whose success it asks.
C21_CheckSuccessIff ==
    pc \in {"resolve", "purge", "yield", "crashed"} =>
        \A d \in Grouped :
            LET success == check_job_success(out[d])
            IN  /\ ~success.exc
                /\ success.ok <=> ZeroFailures(out[d])

\* C22: dry-run predicts the real run: when the run without --dry-run on
\* the tree, with the cutoff and with the protection flag of a dry run has
\* finished its walk, the directories it deleted are exactly the directories
\* the dry run reported as removed.
C22_DryRunPredicts ==
    (/\ pc = "purge" /\ queue = {} /\ ~args.dry_run
     /\ "reported" \in DOMAIN prev /\ prev.cutoff = calculated_time)
        => removed = prev.reported

\* C23: in a purge run on a tree nobody else modifies, with every deletion
\* made before the walk goes on, the directories handed to the deleter are
\* pairwise non-nested, each is handed over at most once, each still exists
\* when it is handed over, and no directory still in the work queue lies
\* in a subtree already deleted.
C23_DeletedNonNested ==
    /\ \A d, e \in removed : d # e => e \notin Tree[d]
    /\ (pc = "yield" /\ ShouldDelete(args.dry_run, Root, job_dir)) =>
            /\ job_dir \notin removed
            /\ fs[job_dir] = "dir"
            /\ \A d \in removed : job_dir \notin Tree[d] /\ d \notin Tree[job_dir]
    /\ \A d \in removed : \A q \in queue : q \notin Tree[d]
\* A directory has been deleted in this run, the walk went on and hands a
\* second one to the deleter, and the work queue still holds a directory.
C23_Witness ==
    /\ pc = "yield" /\ ShouldDelete(args.dry_run, Root, job_dir)
    /\ Cardinality(removed) = 1
    /\ queue # {}

====
